---- MODULE Spec2Model ----
(***************************************************************************)
(* pass-to-keepassxc.py: the record parser (parse_pass_format), the entry  *)
(* and document builders (KeepassXCEntry, KeepassXCDump) and the driver    *)
(* (__main__) that walks a password store, decrypts every file with gpg    *)
(* and prints one XML document.                                            *)
(*                                                                         *)
(* Text is a sequence of symbols.  A symbol is one character, or a run of  *)
(* characters the program never looks inside: a marker text, the ".gpg"    *)
(* suffix, a word of a name.  startswith, removeprefix, removesuffix,      *)
(* strip, split and join act on whole symbols.                             *)
(***************************************************************************)
EXTENDS Integers, Sequences, FiniteSets, TLC

VARIABLES
    src,                \* parse_pass_format: the argument
    parsed,             \* parse_pass_format: the values returned so far (none or one)
    out,                \* the KeepassXCDump under construction (an element tree)
    calls,              \* the builders alone: the add_group calls made, <<name, arguments of the entries>> each
    pc,                 \* __main__: where the run is
    group,              \* __main__: the top-level child of the current iteration
    keepassxc_entries,  \* __main__: the entries collected for the current directory
    seen,               \* the top-level children the loop has taken so far
    log,                \* every file handed to decrypt so far: what gpg did, what was built
    stdout,             \* what has been printed, one element per print
    exitcode            \* the exit status the run ended with, none while it runs

vars == <<src, parsed, out, calls, pc, group, keepassxc_entries, seen, log, stdout, exitcode>>

\* ---------------------------------------------------------------- text

NL == "\n"
SP == " "
OTPAUTH == <<"otpauth://">>
LOGIN == <<"login:">>
URL == <<"url:">>
GPG == <<".gpg">>

\* Python's None; no text is equal to it
None == <<"<None>">>

\* the symbols blobs are drawn from
Sym == {"otpauth://", "login:", "url:", SP, "a", NL}

\* longest blob handed to the parser
MaxLen == 5

RECURSIVE SeqsUpTo(_, _)
SeqsUpTo(S, n) ==
    IF n = 0 THEN {<<>>}
    ELSE LET shorter == SeqsUpTo(S, n - 1)
         IN  shorter \cup {Append(s, x) : s \in {t \in shorter : Len(t) = n - 1}, x \in S}

Blobs == SeqsUpTo(Sym, MaxLen)

\* str.startswith
StartsWith(x, p) == Len(x) >= Len(p) /\ SubSeq(x, 1, Len(p)) = p

\* str.removeprefix
RemovePrefix(x, p) == IF StartsWith(x, p) THEN SubSeq(x, Len(p) + 1, Len(x)) ELSE x

\* str.removesuffix
RemoveSuffix(x, p) ==
    IF Len(x) >= Len(p) /\ SubSeq(x, Len(x) - Len(p) + 1, Len(x)) = p
    THEN SubSeq(x, 1, Len(x) - Len(p))
    ELSE x

IsSpace(c) == c \in {SP, NL}

\* str.strip
Strip(x) ==
    LET nonblank == {i \in 1..Len(x) : ~IsSpace(x[i])}
        lo == CHOOSE i \in nonblank : \A j \in nonblank : i <= j
        hi == CHOOSE i \in nonblank : \A j \in nonblank : j <= i
    IN  IF nonblank = {} THEN <<>> ELSE SubSeq(x, lo, hi)

\* str.split('\n')
RECURSIVE Split(_)
Split(s) ==
    LET nls == {i \in 1..Len(s) : s[i] = NL}
        i == CHOOSE k \in nls : \A j \in nls : k <= j
    IN  IF nls = {} THEN <<s>>
        ELSE <<SubSeq(s, 1, i - 1)>> \o Split(SubSeq(s, i + 1, Len(s)))

\* '\n'.join
RECURSIVE Join(_)
Join(lines) ==
    IF Len(lines) = 0 THEN <<>>
    ELSE IF Len(lines) = 1 THEN lines[1]
    ELSE lines[1] \o <<NL>> \o Join(Tail(lines))

\* next((x for x in it if x.startswith(p)), None)
NextMatch(it, p) ==
    LET hits == {i \in 1..Len(it) : StartsWith(it[i], p)}
        i == CHOOSE k \in hits : \A j \in hits : k <= j
    IN  IF hits = {} THEN None ELSE it[i]

\* list.remove: drops the first element equal to x
Remove(it, x) ==
    LET hits == {i \in 1..Len(it) : it[i] = x}
        i == CHOOSE k \in hits : \A j \in hits : k <= j
    IN  IF hits = {} THEN it ELSE SubSeq(it, 1, i - 1) \o SubSeq(it, i + 1, Len(it))

\* it[1:]
Rest(it) == SubSeq(it, 2, Len(it))

\* ---------------------------------------------------------------- parse_pass_format

\* variant that reads the last line
FirstLine_last(it) == it[Len(it)]

\* password = it[0], read before any line is removed
FirstLine(it) == it[1]

\* variant that does not strip
FieldValue_raw(line, p) == RemovePrefix(line, p)

\* the value of a login: / url: line: removeprefix(...).strip()
FieldValue(line, p) == Strip(RemovePrefix(line, p))

\* the pool after a marker's search: the matched line, if any, is removed
Consume(it, p) ==
    LET m == NextMatch(it, p) IN IF m # None THEN Remove(it, m) ELSE it

parse_pass_format(s) ==
    LET it0 == Split(s)
        totp == NextMatch(it0, OTPAUTH)
        it1 == Consume(it0, OTPAUTH)
        username == NextMatch(it1, LOGIN)
        it2 == Consume(it1, LOGIN)
        url == NextMatch(it2, URL)
        it3 == Consume(it2, URL)
    IN  [password |-> FirstLine(it0),
         notes |-> Join(Rest(it3)),
         totp |-> totp,
         username |-> IF username # None THEN FieldValue(username, LOGIN) ELSE None,
         url |-> IF url # None THEN FieldValue(url, URL) ELSE None]

\* ---------------------------------------------------------------- the parser alone

InitParse ==
    /\ src \in Blobs
    /\ parsed = <<>>
    /\ out = <<>>
    /\ calls = <<>>
    /\ pc = "parse"
    /\ group = None
    /\ keepassxc_entries = <<>>
    /\ seen = <<>>
    /\ log = <<>>
    /\ stdout = <<>>
    /\ exitcode = <<>>

Parse ==
    /\ pc = "parse"
    /\ parsed' = <<parse_pass_format(src)>>
    /\ pc' = "parsed"
    /\ UNCHANGED <<src, out, calls, group, keepassxc_entries, seen, log, stdout, exitcode>>

NextParse == Parse

SpecParse == InitParse /\ [][NextParse]_vars

\* ---------------------------------------------------------------- what the claims speak of

Markers == {OTPAUTH, LOGIN, URL}

\* the text before the first newline
BeforeFirstNewline(s) ==
    LET nls == {i \in 1..Len(s) : s[i] = NL}
        i == CHOOSE k \in nls : \A j \in nls : k <= j
    IN  IF nls = {} THEN s ELSE SubSeq(s, 1, i - 1)

\* the index of the first line that starts with p, 0 when there is none
FirstIdx(lines, p) ==
    LET hits == {i \in 1..Len(lines) : StartsWith(lines[i], p)}
    IN  IF hits = {} THEN 0 ELSE CHOOSE k \in hits : \A j \in hits : k <= j

\* the indices of the lines that are the first match of a marker
ConsumedIdx(lines) == {FirstIdx(lines, p) : p \in Markers} \ {0}

\* the lines from index i on that are not in the index set drop, in order
RECURSIVE KeptFrom(_, _, _)
KeptFrom(lines, i, drop) ==
    IF i > Len(lines) THEN <<>>
    ELSE (IF i \in drop THEN <<>> ELSE <<lines[i]>>) \o KeptFrom(lines, i + 1, drop)

\* the lines after the first that no marker consumed
UnconsumedLines(lines) == KeptFrom(lines, 2, ConsumedIdx(lines))

Count(lines, x) == Cardinality({i \in 1..Len(lines) : lines[i] = x})

Spaces(n) == [i \in 1..n |-> SP]

\* v is w without its surrounding whitespace
IsTrimOf(v, w) ==
    /\ \E a, b \in 0..Len(w) : w = Spaces(a) \o v \o Spaces(b)
    /\ v # <<>> => (v[1] # SP /\ v[Len(v)] # SP)

\* C1: the password returned by parse_pass_format is the first line of the
\* blob, the text before the first newline, whatever that line contains
C1_PasswordIsFirstLine ==
    pc = "parsed" => parsed[1].password = BeforeFirstNewline(src)

\* a blob of several lines whose first line is itself a login: line has been parsed
C1_Witness ==
    /\ pc = "parsed"
    /\ Len(Split(src)) >= 2
    /\ StartsWith(parsed[1].password, LOGIN)
    /\ parsed[1].username # None

\* C2: the notes are the newline-join, in order, of exactly the lines at
\* index >= 1 that are not the first match of a marker, whatever the first
\* line contains
C2_NotesAreUnconsumedLines ==
    pc = "parsed" => parsed[1].notes = Join(UnconsumedLines(Split(src)))

\* C2 where the code agrees: when the first line starts with no marker, the
\* notes are the unconsumed lines after the first
C2_HoldsWhenFirstLineIsNoMarker ==
    (pc = "parsed" /\ \A p \in Markers : ~StartsWith(BeforeFirstNewline(src), p))
        => parsed[1].notes = Join(UnconsumedLines(Split(src)))

\* what C3 says of one marker whose field is `field`; raw tells whether the
\* line is kept intact (otpauth://) or stripped of prefix and whitespace
MarkerFieldOk(lines, p, field, notes, raw) ==
    LET i == FirstIdx(lines, p)
    IN  IF i = 0 THEN field = None
        ELSE /\ field # None
             /\ IF raw THEN field = lines[i]
                ELSE IsTrimOf(field, SubSeq(lines[i], Len(p) + 1, Len(lines[i])))
             /\ Count(Split(notes), lines[i]) < Count(lines, lines[i])

\* C3: totp is the first otpauth:// line intact, username / url are the first
\* login: / url: line without prefix and surrounding whitespace, the matched
\* line is not part of the notes, and a marker with no line yields None
C3_MarkerFields ==
    pc = "parsed" =>
        LET lines == Split(src)
            r == parsed[1]
        IN  /\ MarkerFieldOk(lines, OTPAUTH, r.totp, r.notes, TRUE)
            /\ MarkerFieldOk(lines, LOGIN, r.username, r.notes, FALSE)
            /\ MarkerFieldOk(lines, URL, r.url, r.notes, FALSE)

\* a blob with a padded login: line after an otpauth:// line and no url: line
C3_Witness ==
    /\ pc = "parsed"
    /\ src = <<"otpauth://", NL, "login:", SP, "a">>
    /\ parsed[1].totp = OTPAUTH
    /\ parsed[1].username = <<"a">>
    /\ parsed[1].url = None

\* ---------------------------------------------------------------- xml.etree.ElementTree

\* ET.Element(tag): no attributes, no text, no children
Element(tag) == [tag |-> tag, attrib |-> {}, text |-> None, children |-> <<>>]

\* ET.SubElement(parent, ...): parent with child appended
WithChild(parent, child) == [parent EXCEPT !.children = Append(@, child)]

\* element.text = t
WithText(e, t) == [e EXCEPT !.text = t]

\* element.set(k, v)
WithAttr(e, k, v) == [e EXCEPT !.attrib = {a \in @ : a[1] # k} \cup {<<k, v>>}]

\* ET.tostring, read back as a document: the same tree, an element whose
\* text is None having no text
RECURSIVE tostring(_)
tostring(e) ==
    [tag |-> e.tag,
     attrib |-> e.attrib,
     text |-> IF e.text = None THEN <<>> ELSE e.text,
     children |-> [i \in 1..Len(e.children) |-> tostring(e.children[i])]]

\* ---------------------------------------------------------------- KeepassXCEntry

add_string_field(root, k, v) ==
    WithChild(root,
        WithChild(WithChild(Element("String"), WithText(Element("Key"), k)),
                  WithAttr(WithText(Element("Value"), v), "ProtectInMemory", "True")))

add_auto_type(root) ==
    WithChild(root,
        WithChild(
            WithChild(
                WithChild(Element("AutoType"), WithText(Element("Enabled"), <<"True">>)),
                WithText(Element("DataTransferObfuscation"), <<"0">>)),
            Element("DefaultSequence")))

\* KeepassXCEntry.__init__: the entry's root element
KeepassXCEntry(username, password, url, title, notes, totp) ==
    add_auto_type(
     add_string_field(
      add_string_field(
       add_string_field(
        add_string_field(
         add_string_field(
          add_string_field(Element("Entry"), <<"Notes">>, notes),
          <<"UserName">>, username),
         <<"Password">>, password),
        <<"URL">>, url),
       <<"Title">>, title),
      <<"otp">>, totp))

\* ---------------------------------------------------------------- KeepassXCDump

\* KeepassXCDump.__init__: KeePassFile / Root / Group, the group named "Root"
KeepassXCDump ==
    WithChild(Element("KeePassFile"),
        WithChild(Element("Root"),
            WithChild(Element("Group"), WithText(Element("Name"), <<"Root">>))))

\* the Group element add_group builds
NewGroup(name, entries) ==
    LET named == WithChild(Element("Group"), WithText(Element("Name"), name))
    IN  [named EXCEPT !.children = @ \o entries]

\* self.root of the dump: the group named "Root"
RootGroup(dump) == dump.children[1].children[1]

\* add_group variant that extends an existing group of the same name
add_group_merge(dump, name, entries) ==
    LET kids == RootGroup(dump).children
        same == {i \in 2..Len(kids) : kids[i].children[1].text = name}
        i == CHOOSE k \in same : TRUE
    IN  IF same = {}
        THEN [dump EXCEPT !.children[1].children[1].children =
                              Append(@, NewGroup(name, entries))]
        ELSE [dump EXCEPT !.children[1].children[1].children[i].children = @ \o entries]

\* KeepassXCDump.add_group(name, entries), entries being the entries' root elements
add_group(dump, name, entries) ==
    [dump EXCEPT !.children[1].children[1].children = Append(@, NewGroup(name, entries))]

\* KeepassXCDump.__str__
DumpStr(dump) == tostring(dump)

\* ---------------------------------------------------------------- the builders alone

\* most add_group calls in one run of the builders
MaxGroups == 2
\* most entries in one add_group call of the builders
MaxEntries == 2

\* the names groups take
Names == {<<"work">>, <<"alice", ".gpg">>}

\* the arguments entries are built from
EntryArgs ==
    {[username |-> <<"u">>, password |-> <<"p">>, url |-> <<"l">>,
      title |-> <<"t">>, notes |-> <<"n">>, totp |-> <<"o">>],
     [username |-> None, password |-> <<>>, url |-> <<"l">>,
      title |-> None, notes |-> <<>>, totp |-> None]}

EntryOf(a) == KeepassXCEntry(a.username, a.password, a.url, a.title, a.notes, a.totp)

InitDump ==
    /\ src = <<>>
    /\ parsed = <<>>
    /\ out = KeepassXCDump
    /\ calls = <<>>
    /\ pc = "build"
    /\ group = None
    /\ keepassxc_entries = <<>>
    /\ seen = <<>>
    /\ log = <<>>
    /\ stdout = <<>>
    /\ exitcode = <<>>

AddGroup ==
    /\ pc = "build"
    /\ Len(calls) < MaxGroups
    /\ \E name \in Names, args \in SeqsUpTo(EntryArgs, MaxEntries) :
          /\ out' = add_group(out, name, [i \in 1..Len(args) |-> EntryOf(args[i])])
          /\ calls' = Append(calls, <<name, args>>)
    /\ UNCHANGED <<src, parsed, pc, group, keepassxc_entries, seen, log, stdout, exitcode>>

Str ==
    /\ pc = "build"
    /\ stdout' = Append(stdout, DumpStr(out))
    /\ pc' = "dumped"
    /\ UNCHANGED <<src, parsed, out, calls, group, keepassxc_entries, seen, log, exitcode>>

NextDump == AddGroup \/ Str

SpecDump == InitDump /\ [][NextDump]_vars

\* the Key and Value texts of a serialized entry's String children, in order
StringFields(entry) ==
    LET strs == SelectSeq(entry.children, LAMBDA c : c.tag = "String")
    IN  [i \in 1..Len(strs) |-> <<strs[i].children[1].text, strs[i].children[2].text>>]

EmptyIfNone(v) == IF v = None THEN <<>> ELSE v

\* the six fields, in the fixed order, an entry built from a must serialize to
SixFields(a) ==
    << <<(<<"Notes">>), EmptyIfNone(a.notes)>>,
       <<(<<"UserName">>), EmptyIfNone(a.username)>>,
       <<(<<"Password">>), EmptyIfNone(a.password)>>,
       <<(<<"URL">>), EmptyIfNone(a.url)>>,
       <<(<<"Title">>), EmptyIfNone(a.title)>>,
       <<(<<"otp">>), EmptyIfNone(a.totp)>> >>

C10_OnlySecretsProtected ==
    \A g \in 2..Len(RootGroup(out).children) :
        LET kids == RootGroup(out).children[g].children
        IN  \A e \in 2..Len(kids) :
                \A f \in 1..Len(kids[e].children) :
                    LET field == kids[e].children[f]
                    IN  field.tag = "String" =>
                            (<<"ProtectInMemory", "True">> \in field.children[2].attrib
                                <=> field.children[1].text \in
                                        {<<"Password">>, <<"Notes">>, <<"otp">>})

\* ---------------------------------------------------------------- gpg and the file system

\* a byte that is not valid UTF-8
BAD == "0xff"

\* bytes.decode('utf-8') raises UnicodeDecodeError
DecodeRaises(bytes) == \E i \in 1..Len(bytes) : bytes[i] = BAD

\* bytes.decode('utf-8') of valid bytes: the characters they encode
Decode(bytes) == [i \in 1..Len(bytes) |-> bytes[i]]

\* what gpg writes to its stdout when it decrypts a file
Plaintexts ==
    {<<"a", NL, "login:", "a">>,
     <<"a", NL, "url:", SP, "a">>,
     <<"a", NL, "url:", SP>>,
     <<BAD>>}

\* what subprocess.run(["gpg", ...], capture_output=True) does: it raises
\* (gpg cannot be started), or returns gpg's exit status and stdout
GpgOutcomes ==
    {[raised |-> TRUE, returncode |-> 0, stdout |-> <<>>]}
        \cup [raised : {FALSE}, returncode : {0}, stdout : Plaintexts]
        \cup [raised : {FALSE}, returncode : {2}, stdout : {<<>>}]

\* the names iterdir yields at the top level, hidden ones included
DirEntryNames == Names \cup {<<".", "git">>}

\* the names of the files find_files comes across, hidden ones included
FileNames == {<<"alice", ".gpg">>, <<".", "gpg-id">>}

\* the names of the subdirectories find_files descends into
SubDirNames == {<<"sub">>}

\* x.name[0] != '.'
NotHidden(name) == name[1] # "."

\* a or b variant that takes b only when a is None
Or_isnone(a, b) == IF a = None THEN b ELSE a

\* a or b: b when a is None or the empty string
Or(a, b) == IF a = None \/ a = <<>> THEN b ELSE a

\* ---------------------------------------------------------------- __main__

\* most directory entries one run comes across: the top-level children it
\* takes plus the files it hands to decrypt
MaxVisited == 4

Visited == Len(seen) + Len(log)

Init ==
    /\ src = <<>>
    /\ parsed = <<>>
    /\ out = KeepassXCDump
    /\ calls = <<>>
    /\ pc = "top"
    /\ group = None
    /\ keepassxc_entries = <<>>
    /\ seen = <<>>
    /\ log = <<>>
    /\ stdout = <<>>
    /\ exitcode = <<>>

\* one record of log
Logged(top, kind, name, parent, gpg, built) ==
    [top |-> top, kind |-> kind, name |-> name, parent |-> parent,
     gpg |-> gpg, entry |-> built]

\* the loop takes a directory: a new, empty list of entries
TopDir ==
    /\ pc = "top"
    /\ Visited < MaxVisited
    /\ \E name \in DirEntryNames :
          /\ NotHidden(name)
          /\ group' = name
          /\ seen' = Append(seen, [name |-> name, kind |-> "dir"])
    /\ keepassxc_entries' = <<>>
    /\ pc' = "walk"
    /\ UNCHANGED <<src, parsed, out, calls, log, stdout, exitcode>>

\* find_files yields a file of the directory: the body of the inner loop
WalkFile ==
    /\ pc = "walk"
    /\ Visited < MaxVisited
    /\ \E name \in FileNames, parent_name \in {group} \cup SubDirNames,
          gpg \in GpgOutcomes :
          LET username == RemoveSuffix(name, GPG)
              r == parse_pass_format(Decode(gpg.stdout))
              url == Or(r.url, parent_name)
              entry == KeepassXCEntry(username, r.password, url, username, r.notes, r.totp)
          IN  /\ NotHidden(name)
              /\ IF gpg.raised
                 THEN /\ pc' = "aborted"
                      /\ exitcode' = <<1>>
                      /\ log' = Append(log, Logged(Len(seen), "dir", name, parent_name, gpg, <<>>))
                      /\ UNCHANGED keepassxc_entries
                 ELSE IF DecodeRaises(gpg.stdout)
                 THEN /\ log' = Append(log, Logged(Len(seen), "dir", name, parent_name, gpg, <<>>))
                      /\ UNCHANGED <<pc, exitcode, keepassxc_entries>>
                 ELSE /\ keepassxc_entries' = Append(keepassxc_entries, entry)
                      /\ log' = Append(log, Logged(Len(seen), "dir", name, parent_name, gpg, <<entry>>))
                      /\ UNCHANGED <<pc, exitcode>>
    /\ UNCHANGED <<src, parsed, out, calls, group, seen, stdout>>

\* find_files is exhausted: the directory's group is added
WalkEnd ==
    /\ pc = "walk"
    /\ out' = add_group(out, RemoveSuffix(group, GPG), keepassxc_entries)
    /\ pc' = "top"
    /\ UNCHANGED <<src, parsed, calls, group, keepassxc_entries, seen, log, stdout, exitcode>>

\* the loop takes a plain file: the whole elif branch
TopFile ==
    /\ pc = "top"
    /\ Visited + 1 < MaxVisited
    /\ \E name \in DirEntryNames, gpg \in GpgOutcomes :
          LET filename == RemoveSuffix(name, GPG)
              r == parse_pass_format(Decode(gpg.stdout))
              url == Or(r.url, filename)
              entry == KeepassXCEntry(r.username, r.password, url, r.username,
                                      r.notes, r.totp)
          IN  /\ NotHidden(name)
              /\ group' = name
              /\ seen' = Append(seen, [name |-> name, kind |-> "file"])
              /\ IF gpg.raised
                 THEN /\ pc' = "aborted"
                      /\ exitcode' = <<1>>
                      /\ keepassxc_entries' = <<>>
                      /\ log' = Append(log, Logged(Len(seen) + 1, "file", name, None, gpg, <<>>))
                      /\ UNCHANGED out
                 ELSE IF DecodeRaises(gpg.stdout)
                 THEN /\ keepassxc_entries' = <<>>
                      /\ log' = Append(log, Logged(Len(seen) + 1, "file", name, None, gpg, <<>>))
                      /\ UNCHANGED <<pc, exitcode, out>>
                 ELSE /\ keepassxc_entries' = <<entry>>
                      /\ out' = add_group(out, RemoveSuffix(name, GPG), <<entry>>)
                      /\ log' = Append(log, Logged(Len(seen) + 1, "file", name, None, gpg, <<entry>>))
                      /\ UNCHANGED <<pc, exitcode>>
    /\ UNCHANGED <<src, parsed, calls, stdout>>

\* the loop is exhausted: print(out); sys.exit(0)
TopEnd ==
    /\ pc = "top"
    /\ stdout' = Append(stdout, DumpStr(out))
    /\ exitcode' = <<0>>
    /\ pc' = "done"
    /\ UNCHANGED <<src, parsed, out, calls, group, keepassxc_entries, seen, log>>

Next == TopDir \/ WalkFile \/ WalkEnd \/ TopFile \/ TopEnd

Spec == Init /\ [][Next]_vars

\* ---------------------------------------------------------------- the run, as the claims see it

\* the subgroups of the group named "Root"
Subgroups(doc) == Rest(RootGroup(doc).children)

\* the value of the field key of an entry, an absent value read as empty
FieldOf(entry, key) ==
    LET i == CHOOSE k \in 1..Len(entry.children) :
                 /\ entry.children[k].tag = "String"
                 /\ entry.children[k].children[1].text = key
    IN  EmptyIfNone(entry.children[i].children[2].text)

\* gpg's output is text: decrypt returned it
Decoded(f) == ~f.gpg.raised /\ ~DecodeRaises(f.gpg.stdout)

\* gpg's output is not UTF-8: decrypt raised UnicodeDecodeError
Undecodable(f) == ~f.gpg.raised /\ DecodeRaises(f.gpg.stdout)

\* the decryption collaborator failed: no process, or a non-zero exit
Failed(f) == f.gpg.raised \/ f.gpg.returncode # 0

\* the text after the prefix of the first url: line, <<>> standing for no such line
UrlLine(f) ==
    LET lines == Split(Decode(f.gpg.stdout))
        u == FirstIdx(lines, URL)
    IN  IF u = 0 THEN <<>> ELSE <<SubSeq(lines[u], Len(URL) + 1, Len(lines[u]))>>

\* the fallback url: the immediate parent directory's name under a
\* directory, the file's own name without .gpg for a top-level file
Fallback(f) == IF f.kind = "dir" THEN f.parent ELSE RemoveSuffix(f.name, GPG)

\* the entries built for the files of top-level child c, from log index i on
RECURSIVE EntriesFrom(_, _)
EntriesFrom(c, i) ==
    IF i > Len(log) THEN <<>>
    ELSE (IF log[i].top = c THEN log[i].entry ELSE <<>>) \o EntriesFrom(c, i + 1)

\* doc has one subgroup per top-level child taken, in order, named after the
\* child without .gpg
GroupPerChild(doc) ==
    /\ Len(Subgroups(doc)) = Len(seen)
    /\ \A c \in 1..Len(seen) :
          c <= Len(Subgroups(doc)) =>
              Subgroups(doc)[c].children[1].text = RemoveSuffix(seen[c].name, GPG)

\* C4 as stated: the entry's URL is the trimmed value of the url: line
\* whenever the blob has one, otherwise the fallback
C4_UrlIsRecordUrlWheneverPresent ==
    \A i \in 1..Len(log) :
        Decoded(log[i]) =>
            /\ Len(log[i].entry) = 1
            /\ LET field == FieldOf(log[i].entry[1], <<"URL">>)
               IN  IF UrlLine(log[i]) # <<>>
                   THEN IsTrimOf(field, UrlLine(log[i])[1])
                   ELSE field = Fallback(log[i])

\* C4 amended: the entry's URL is the trimmed value of the url: line when
\* the blob has one and that value is not empty, otherwise the fallback (the
\* parent directory's name under a directory, also when nested; the file's
\* name without .gpg for a top-level file)
C4_UrlIsNonEmptyRecordUrlOrFallback ==
    \A i \in 1..Len(log) :
        Decoded(log[i]) =>
            /\ Len(log[i].entry) = 1
            /\ LET field == FieldOf(log[i].entry[1], <<"URL">>)
               IN  IF UrlLine(log[i]) # <<>> /\ ~IsTrimOf(<<>>, UrlLine(log[i])[1])
                   THEN IsTrimOf(field, UrlLine(log[i])[1])
                   ELSE field = Fallback(log[i])

\* under one directory a file with a url: line got that url, and a file in a
\* nested subdirectory, with an empty url: line, got the subdirectory's name
C4_Witness ==
    \E i, j \in 1..Len(log) :
        /\ log[i].kind = "dir" /\ Decoded(log[i])
        /\ UrlLine(log[i]) = << <<SP, "a">> >>
        /\ FieldOf(log[i].entry[1], <<"URL">>) = <<"a">>
        /\ log[j].kind = "dir" /\ Decoded(log[j])
        /\ UrlLine(log[j]) = << <<SP>> >>
        /\ log[j].parent \in SubDirNames
        /\ FieldOf(log[j].entry[1], <<"URL">>) = log[j].parent

\* C5: Title and UserName of every entry are the file's base name without
\* .gpg, under a directory and for a top-level file alike, whatever login:
\* line the record has
C5_TitleAndUserNameAreFileName ==
    \A i \in 1..Len(log) :
        Decoded(log[i]) =>
            /\ Len(log[i].entry) = 1
            /\ FieldOf(log[i].entry[1], <<"Title">>) = RemoveSuffix(log[i].name, GPG)
            /\ FieldOf(log[i].entry[1], <<"UserName">>) = RemoveSuffix(log[i].name, GPG)

\* C5 where the code agrees: under a top-level directory
C5_HoldsUnderDirectory ==
    \A i \in 1..Len(log) :
        (Decoded(log[i]) /\ log[i].kind = "dir") =>
            /\ Len(log[i].entry) = 1
            /\ FieldOf(log[i].entry[1], <<"Title">>) = RemoveSuffix(log[i].name, GPG)
            /\ FieldOf(log[i].entry[1], <<"UserName">>) = RemoveSuffix(log[i].name, GPG)

\* what C6 says of a run in which the file log[i] was not valid UTF-8
SkippedQuietly(i) ==
    /\ log[i].entry = <<>>
    /\ pc = "aborted" => log[Len(log)].gpg.raised
    /\ \A j \in 1..Len(log) : Decoded(log[j]) => Len(log[j].entry) = 1
    /\ pc \in {"top", "done"} =>
          /\ GroupPerChild(out)
          /\ \A c \in 1..Len(seen) :
                c <= Len(Subgroups(out)) =>
                    Rest(Subgroups(out)[c].children) = EntriesFrom(c, 1)

\* C6: a file that is not valid UTF-8 contributes no entry, the run does not
\* abort, every other file yields its entry, and the group of the file's
\* top-level child is still added, for a file under a directory and for a
\* top-level file alike
C6_UndecodableFileIsSkipped ==
    \A i \in 1..Len(log) : Undecodable(log[i]) => SkippedQuietly(i)

\* C6 where the code agrees: when every file that is not valid UTF-8 lies
\* under a top-level directory
C6_HoldsUnderDirectory ==
    (\A i \in 1..Len(log) : Undecodable(log[i]) => log[i].kind = "dir")
        => \A i \in 1..Len(log) : Undecodable(log[i]) => SkippedQuietly(i)

\* C7: when decryption fails for a file, by a process error or a non-zero
\* exit without a decode error, the run aborts: no entry for the file, no
\* later file, no document, no success exit status
C7_DecryptFailureAborts ==
    \A i \in 1..Len(log) :
        (Failed(log[i]) /\ ~DecodeRaises(log[i].gpg.stdout)) =>
            /\ log[i].entry = <<>>
            /\ i = Len(log)
            /\ pc = "aborted"
            /\ stdout = <<>>
            /\ exitcode # <<0>>

\* C7 where the code agrees: when gpg could not be run at all
C7_HoldsForProcessError ==
    \A i \in 1..Len(log) :
        log[i].gpg.raised =>
            /\ log[i].entry = <<>>
            /\ i = Len(log)
            /\ pc = "aborted"
            /\ stdout = <<>>
            /\ exitcode = <<1>>

\* C8: the document is written exactly once, only after every top-level
\* child taken has been processed and its group added; nothing is written
\* before, and a run that aborts writes nothing
C8_DocumentWrittenOnceAtEnd ==
    /\ Len(stdout) <= 1
    /\ pc = "aborted" => stdout = <<>>
    /\ pc = "done" => Len(stdout) = 1
    /\ stdout # <<>> => (pc = "done" /\ GroupPerChild(stdout[1]))

\* C8 where the code agrees: one write, by the run that reaches the end of
\* the loop, of the document as accumulated; none before, none on abort
C8_WrittenOnceAfterLoop ==
    /\ Len(stdout) <= 1
    /\ pc = "aborted" => stdout = <<>>
    /\ pc = "done" => Len(stdout) = 1
    /\ stdout # <<>> => (pc = "done" /\ stdout[1] = DumpStr(out))

====
